---- MODULE Spec2Model ----
(***************************************************************************)
(* State-machine model of MemoryTracker (src/memory_tracker.py): the       *)
(* sampling thread (MemoryTracker.run) and the calls the GUI thread makes  *)
(* on the tracker (add_process_to_track, remove_tracked_process,           *)
(* update_leak_threshold, stop, get_summary_stats).                        *)
(*                                                                         *)
(* The host is not part of the state: a psutil query of a process may      *)
(* return or raise NoSuchProcess / AccessDenied whenever it is made (a     *)
(* process exits, a PID is reused, access is refused).                     *)
(*                                                                         *)
(* The tracker holds no lock, so the two threads interleave between any    *)
(* two statements that touch the shared fields: every such statement is    *)
(* one action, and pc / cpc are the positions of the two threads.          *)
(* Memory values are whole MB; a timestamp is the number of the tick that  *)
(* took it.                                                                *)
(***************************************************************************)
EXTENDS Integers, Sequences, FiniteSets, TLC

VARIABLES
    \* fields of MemoryTracker (lines 35-45)
    max_history, memory_history, process_memory_history, timestamps,
    leak_threshold, leak_detected, running, tracked_processes, process_history,
    \* the sampling thread: position in run() and its locals
    pc, timestamp, host, process_mem, process_data, it, pid, slope,
    \* the signals emitted so far
    update_signal, leak_alert,
    \* the GUI thread: position in the call it is making, its argument, its result
    cpc, cpid, cret,
    \* the GUI thread: the dict get_history_df is building, the result of the
    \* last get_summary_stats and the table the last export got
    data, stats, df,
    \* the host: the injected snapshot source
    source,
    \* history variables used by the properties
    ticks, recorded, tick, lost, ops, call, stops

fields == <<max_history, memory_history, process_memory_history, timestamps,
            leak_threshold, leak_detected, running, tracked_processes,
            process_history>>
buffers == <<memory_history, process_memory_history, timestamps>>
registry == <<tracked_processes, process_history>>
locals == <<timestamp, host, process_mem, process_data, it, pid, slope>>
signals == <<update_signal, leak_alert>>
consumer == <<cpc, cpid, cret>>
reader == <<data, stats, df>>
env == <<source>>
vars == <<fields, pc, locals, signals, consumer, reader, env, ticks, recorded, tick, lost,
          ops, call, stops>>

---------------------------------------------------------------------------
(* Bounds of the model *)

\* max_history of the small configuration
MaxHistory == 1
\* ticks the sampling loop starts in the small configuration
MaxTicks == 2
\* calls the GUI thread makes
MaxOps == 2
\* max_history and ticks of the leak-detection configuration
LeakHistory == 31
LeakTicks == 33
\* threshold changes in the leak-detection configuration
LeakOps == 2
\* max_history and ticks of the history-store configuration
StoreHistory == 3
StoreTicks == 5
\* calls of stop() in the shutdown configuration
ShutdownOps == 2
\* ticks and calls of the GUI thread in the summary configuration
SummaryTicks == 3
SummaryOps == 2
ReadTicks == 1
ReadOps == 2

\* PIDs the user may type in
Pids == {1, 2}
\* resident MB a tracked process may report
ProcMems == {4, 6}
\* values of the QSpinBox driving update_leak_threshold (range 1..1000)
Thresholds == {10, 60, 100}

---------------------------------------------------------------------------
(* Program constants *)

\* leak_threshold set by __init__
DefaultThreshold == 10
\* window of the leak heuristic
LeakWindow == 30
\* samples per minute at the 1 s period: slope * 60
PerMinute == 60

---------------------------------------------------------------------------
(* Snapshot source *)

HostA == [total |-> 16, used |-> 8, free |-> 8, swap |-> 0, percent |-> 50]
HostB == [total |-> 16, used |-> 12, free |-> 4, swap |-> 1, percent |-> 75]

\* A source that may return any of a few readings, or fail, at every tick.
FreeSource == [kind |-> "any"]

\* A source whose readings alternate from tick to tick, and that may fail at
\* every tick.
CycleSource == [kind |-> "cycle"]

\* A scripted source: the self-process memory starts at base, grows by r1 per
\* tick up to tick `at` and by r2 per tick afterwards; the self query fails at
\* the ticks in `fail`.
Scripts ==
    { [kind |-> "script", base |-> 100, r1 |-> a, at |-> s, r2 |-> b, fail |-> f] :
        a \in {0, 1, 20}, s \in {30, 32}, b \in {0, 1}, f \in {{}, {2}} }

Ramp(s, t) ==
    s.base + s.r1 * (IF t < s.at THEN t ELSE s.at) + s.r2 * (IF t < s.at THEN 0 ELSE t - s.at)

\* What virtual_memory() and Process(os.getpid()).memory_info() may return at tick t
Readings(s, t) ==
    CASE s.kind = "any" -> {[host |-> HostA, self |-> 3], [host |-> HostB, self |-> 5]}
      [] s.kind = "cycle" -> {IF t % 2 = 1 THEN [host |-> HostA, self |-> 3]
                                           ELSE [host |-> HostB, self |-> 5]}
      [] OTHER -> {[host |-> HostA, self |-> Ramp(s, t)]}

\* Whether one of the host / self queries may raise at tick t
MayRaise(s, t) ==
    IF s.kind = "script" THEN t \in s.fail ELSE TRUE

---------------------------------------------------------------------------
(* collections.deque(maxlen=n) *)

\* mutant: the maxlen is ignored
DequeAppendUnbounded(q, v, n) == Append(q, v)

\* mutant: a full deque gives up its newest element instead of its oldest
DequeAppendEvictNewest(q, v, n) ==
    IF n = 0 THEN q
    ELSE IF Len(q) >= n THEN Append(SubSeq(q, 1, Len(q) - 1), v)
    ELSE Append(q, v)

DequeAppend(q, v, n) ==
    IF n = 0 THEN q
    ELSE IF Len(q) >= n THEN Append(Tail(q), v)
    ELSE Append(q, v)

LastN(q, n) ==
    IF Len(q) <= n THEN q ELSE SubSeq(q, Len(q) - n + 1, Len(q))

---------------------------------------------------------------------------
(* dict: tracked_processes                                                 *)
(* A CPython dict keeps its entries in insertion order; del leaves a dummy *)
(* entry behind and an iterator walks the entries by index. The values     *)
(* (psutil.Process handles) are determined by their keys and left out.     *)

Dummy == 0 - 1

\* usable entries of a dict of the minimum size (8 slots): resize on the next insert
DictUsable == (2 * 8) \div 3

Keys(d) == {d[i] : i \in DOMAIN d} \ {Dummy}

Used(d) == Cardinality(Keys(d))

Compact(d) == SelectSeq(d, LAMBDA k : k # Dummy)

\* d[k] = v
DictSet(d, k) ==
    IF k \in Keys(d) THEN d
    ELSE IF Len(d) >= DictUsable THEN Append(Compact(d), k)
    ELSE Append(d, k)

\* del d[k], for k in d
DictDel(d, k) == [i \in DOMAIN d |-> IF d[i] = k THEN Dummy ELSE d[i]]

\* iter(d.items())
DictIter(d) == [pos |-> 0, len |-> Used(d), used |-> Used(d)]

\* index of the next live entry after position p, 0 when there is none
NextLive(d, p) ==
    IF \E i \in DOMAIN d : i > p /\ d[i] # Dummy
    THEN CHOOSE i \in DOMAIN d :
            /\ i > p /\ d[i] # Dummy
            /\ \A j \in DOMAIN d : (j > p /\ d[j] # Dummy) => i <= j
    ELSE 0

\* next(iterator): "error" is RuntimeError (dictionary changed size / keys
\* changed during iteration), "stop" is StopIteration
IterNextResult(d, i) ==
    IF i.used # Used(d) THEN [kind |-> "error", key |-> Dummy, it |-> i]
    ELSE IF NextLive(d, i.pos) = 0 THEN [kind |-> "stop", key |-> Dummy, it |-> i]
    ELSE IF i.len = 0 THEN [kind |-> "error", key |-> Dummy, it |-> i]
    ELSE [kind |-> "item", key |-> d[NextLive(d, i.pos)],
          it |-> [pos |-> NextLive(d, i.pos), len |-> i.len - 1, used |-> i.used]]

---------------------------------------------------------------------------
(* dict: process_history, pid -> deque, in insertion order *)

HistKeys(h) == {h[i].pid : i \in DOMAIN h}

HistGet(h, k) == (CHOOSE i \in DOMAIN h : h[i].pid = k)

\* mutant: a buffer that exists is kept (h.setdefault(k, deque(maxlen=...)))
HistSetKeeps(h, k) ==
    IF k \in HistKeys(h)
    THEN h
    ELSE Append(h, [pid |-> k, hist |-> <<>>])

\* h[k] = deque(maxlen=...)
HistSet(h, k) ==
    IF k \in HistKeys(h)
    THEN [i \in DOMAIN h |-> IF h[i].pid = k THEN [pid |-> k, hist |-> <<>>] ELSE h[i]]
    ELSE Append(h, [pid |-> k, hist |-> <<>>])

\* del h[k], for k in h
HistDel(h, k) == SelectSeq(h, LAMBDA e : e.pid # k)

\* h[k].append(v), for k in h
HistAppend(h, k, v, n) ==
    [i \in DOMAIN h |->
        IF h[i].pid = k THEN [pid |-> k, hist |-> DequeAppend(h[i].hist, v, n)] ELSE h[i]]

Hist(h, k) == h[HistGet(h, k)].hist

---------------------------------------------------------------------------
(* Leak heuristic: np.polyfit(np.arange(len(recent)), recent, 1)[0] * 60     *)
(* The least-squares slope of y against x = 0..n-1 is                       *)
(*   (n*Sxy - Sx*Sy) / (n*Sxx - Sx*Sx);                                     *)
(* it is kept as an exact fraction num/den with den > 0.                    *)

RECURSIVE SumTo(_, _)
SumTo(f, n) == IF n = 0 THEN 0 ELSE f[n] + SumTo(f, n - 1)

Sx(n) == SumTo([i \in 1..n |-> i - 1], n)
Sxx(n) == SumTo([i \in 1..n |-> (i - 1) * (i - 1)], n)
Sy(ys) == SumTo(ys, Len(ys))
Sxy(ys) == SumTo([i \in 1..Len(ys) |-> (i - 1) * ys[i]], Len(ys))

\* slope = coeffs[0] * 60
ProjectedSlope(recent) ==
    [num |-> PerMinute * (Len(recent) * Sxy(recent) - Sx(Len(recent)) * Sy(recent)),
     den |-> Len(recent) * Sxx(Len(recent)) - Sx(Len(recent)) * Sx(Len(recent))]

\* mutant: >= in place of >
SlopeAtLeast(sl, thr) == sl.num >= thr * sl.den

\* slope > threshold
SlopeAbove(sl, thr) == sl.num > thr * sl.den

\* mutant: the test of leak_detected is dropped
RaiseConditionNoLatch(sl, thr, detected) == SlopeAbove(sl, thr)

\* line 126: slope > self.leak_threshold and not self.leak_detected
RaiseCondition(sl, thr, detected) == SlopeAbove(sl, thr) /\ ~detected

\* line 131: slope <= self.leak_threshold and self.leak_detected
ClearCondition(sl, thr, detected) == ~SlopeAbove(sl, thr) /\ detected

\* line 120: len(self.process_memory_history) > 30
EnoughSamples(h) == Len(h) > LeakWindow

NoSlope == [num |-> 0, den |-> 1]

---------------------------------------------------------------------------
(* Summary statistics: round(df[col].mean(), 2) and round(df[col].max(), 2) *)
(* Samples are whole MB here; a statistic is kept in hundredths of a MB,    *)
(* the two decimals round(..., 2) leaves.                                   *)

\* [x[f] for x in rec]
Column(rec, f) == [i \in DOMAIN rec |-> rec[i][f]]

RECURSIVE SeqMax(_)
SeqMax(q) ==
    IF Len(q) = 1 THEN q[1]
    ELSE LET m == SeqMax(Tail(q)) IN IF q[1] > m THEN q[1] ELSE m

\* round(a / b, 2) in hundredths, for a >= 0 and b > 0: to the nearest
\* hundredth, a tie to the even one
Round2(a, b) ==
    LET q == (100 * a) \div b
        r == (100 * a) % b
    IN  IF 2 * r < b THEN q
        ELSE IF 2 * r > b THEN q + 1
        ELSE IF q % 2 = 0 THEN q ELSE q + 1

\* mutant: the mean is cut to two decimals instead of rounded
RoundedMeanTruncated(q) == (100 * Sy(q)) \div Len(q)

\* round(df[col].mean(), 2)
RoundedMean(q) == Round2(Sy(q), Len(q))

\* round(df[col].max(), 2)
RoundedMax(q) == Round2(SeqMax(q), 1)

---------------------------------------------------------------------------
(* Initial state: MemoryTracker.__init__ followed by start() *)

NoHost == [total |-> 0, used |-> 0, free |-> 0, swap |-> 0, percent |-> 0]
NoIter == [pos |-> 0, len |-> 0, used |-> 0]
NoStats == [timestamp |-> 0, host |-> NoHost, process_memory |-> 0,
            leak_detected |-> FALSE, process_data |-> <<>>]
NoResult == [ok |-> FALSE, msg |-> "none"]
\* a call whose start the properties do not look at
NoCall == [name |-> "none", mid |-> FALSE, ticks |-> 0]
NoData == [timestamp |-> <<>>, memory |-> <<>>, process_memory |-> <<>>, procs |-> <<>>]
NoTable == [kind |-> "none", columns |-> <<>>, pids |-> <<>>, rows |-> <<>>]
NoSummary == [kind |-> "none", avg_memory_usage |-> 0, max_memory_usage |-> 0,
              avg_process_memory |-> 0, max_process_memory |-> 0,
              leak_detected |-> FALSE, procs |-> <<>>]

\* what the properties remember of the tick in progress
NewTick(detected, idle, n, upd, alerts) ==
    [ok |-> FALSE, upd0 |-> upd, alert0 |-> alerts, before |-> detected,
     quiet |-> idle, ops0 |-> n,
     evaluated |-> FALSE, thr1 |-> 0, thr2 |-> 0, reads |-> 0,
     start_keys |-> {}, attempted |-> {}, failed |-> {}, sampled |-> <<>>,
     aborted |-> FALSE]

InitWith(n, src) ==
    /\ max_history = n
    /\ memory_history = <<>>
    /\ process_memory_history = <<>>
    /\ timestamps = <<>>
    /\ leak_threshold = DefaultThreshold
    /\ leak_detected = FALSE
    /\ running = TRUE
    /\ tracked_processes = <<>>
    /\ process_history = <<>>
    /\ pc = "while"
    /\ timestamp = 0
    /\ host = NoHost
    /\ process_mem = 0
    /\ process_data = <<>>
    /\ it = NoIter
    /\ pid = 0
    /\ slope = NoSlope
    /\ update_signal = [n |-> 0, last |-> NoStats]
    /\ leak_alert = 0
    /\ cpc = "idle"
    /\ cpid = 0
    /\ cret = NoResult
    /\ data = NoData
    /\ stats = NoSummary
    /\ df = NoTable
    /\ source = src
    /\ ticks = 0
    /\ recorded = <<>>
    /\ tick = NewTick(FALSE, TRUE, 0, 0, 0)
    /\ lost = {}
    /\ ops = 0
    /\ call = NoCall
    /\ stops = 0

Init == InitWith(MaxHistory, CycleSource)

InitLeak == \E s \in Scripts : InitWith(LeakHistory, s)

InitStore == InitWith(StoreHistory, FreeSource)

---------------------------------------------------------------------------
(* The sampling thread: MemoryTracker.run *)

\* line 84: while self.running (reached from start() and after time.sleep(1), line 153)
WhileEnter ==
    /\ pc = "while"
    /\ running
    /\ pc' = "query"
    /\ ticks' = ticks + 1
    /\ tick' = NewTick(leak_detected, cpc = "idle", ops, update_signal.n, leak_alert)
    /\ UNCHANGED <<fields, locals, signals, consumer, env, reader, recorded, lost, ops,
                   call, stops>>

WhileExit ==
    /\ pc = "while"
    /\ ~running
    /\ pc' = "done"
    /\ UNCHANGED <<fields, locals, signals, consumer, env, reader, ticks, recorded, tick,
                   lost, ops, call, stops>>

\* lines 86-99: every host and self query is made before the first append;
\* then self.timestamps.append(timestamp)
QueryOk ==
    /\ pc = "query"
    /\ \E r \in Readings(source, ticks) :
        /\ timestamp' = ticks
        /\ host' = r.host
        /\ process_mem' = r.self
        /\ timestamps' = DequeAppend(timestamps, ticks, max_history)
        /\ recorded' = Append(recorded, [timestamp |-> ticks, host |-> r.host, self |-> r.self])
    /\ tick' = [tick EXCEPT !.ok = TRUE]
    /\ pc' = "store_mem"
    /\ UNCHANGED <<max_history, memory_history, process_memory_history, leak_threshold,
                   leak_detected, running, registry, process_data, it, pid, slope,
                   signals, consumer, env, reader, ticks, lost, ops, call, stops>>

\* mutant: the query that raises is made after the timestamp has been appended
QueryRaiseAfterAppend ==
    /\ pc = "query"
    /\ MayRaise(source, ticks)
    /\ timestamps' = DequeAppend(timestamps, ticks, max_history)
    /\ pc' = "except"
    /\ UNCHANGED <<max_history, memory_history, process_memory_history, leak_threshold,
                   leak_detected, running, registry, locals, signals, consumer, env, reader,
                   ticks, recorded, tick, lost, ops, call, stops>>

\* one of the queries of lines 86-96 raises
QueryRaise ==
    /\ pc = "query"
    /\ MayRaise(source, ticks)
    /\ pc' = "except"
    /\ UNCHANGED <<fields, locals, signals, consumer, env, reader, ticks, recorded, tick,
                   lost, ops, call, stops>>

\* lines 100-106: self.memory_history.append({...})
StoreMemory ==
    /\ pc = "store_mem"
    /\ memory_history' = DequeAppend(memory_history, host, max_history)
    /\ pc' = "store_self"
    /\ UNCHANGED <<max_history, process_memory_history, timestamps, leak_threshold,
                   leak_detected, running, registry, locals, signals, consumer, env, reader,
                   ticks, recorded, tick, lost, ops, call, stops>>

\* line 107: self.process_memory_history.append(process_mem)
StoreSelf ==
    /\ pc = "store_self"
    /\ process_memory_history' = DequeAppend(process_memory_history, process_mem, max_history)
    /\ pc' = "iter"
    /\ UNCHANGED <<max_history, memory_history, timestamps, leak_threshold,
                   leak_detected, running, registry, locals, signals, consumer, env, reader,
                   ticks, recorded, tick, lost, ops, call, stops>>

\* lines 110-111: process_data = {}; the for statement creates the iterator
IterStart ==
    /\ pc = "iter"
    /\ process_data' = <<>>
    /\ it' = DictIter(tracked_processes)
    /\ tick' = [tick EXCEPT !.start_keys = Keys(tracked_processes)]
    /\ pc' = "next"
    /\ UNCHANGED <<fields, timestamp, host, process_mem, pid, slope, signals,
                   consumer, env, reader, ticks, recorded, lost, ops, call, stops>>

\* line 111: the for statement asks the iterator for the next item
IterNext ==
    /\ pc = "next"
    /\ LET r == IterNextResult(tracked_processes, it) IN
        /\ it' = r.it
        /\ pid' = IF r.kind = "item" THEN r.key ELSE pid
        /\ pc' = CASE r.kind = "item" -> "proc"
                   [] r.kind = "stop" -> "leak"
                   [] OTHER -> "except"
        /\ tick' = IF r.kind = "item"
                   THEN [tick EXCEPT !.attempted = @ \cup {r.key}]
                   ELSE tick
    /\ UNCHANGED <<fields, timestamp, host, process_mem, process_data, slope,
                   signals, consumer, env, reader, ticks, recorded, lost, ops, call, stops>>

\* lines 113-115: mem = proc.memory_info().rss; self.process_history[pid].append(mem)
\* (KeyError when the buffer is not there); process_data[pid] = mem
ProcStore ==
    /\ pc = "proc"
    /\ \E m \in ProcMems :
        IF pid \in HistKeys(process_history)
        THEN /\ process_history' = HistAppend(process_history, pid, m, max_history)
             /\ process_data' = (pid :> m) @@ process_data
             /\ tick' = [tick EXCEPT !.sampled = Append(@, pid)]
             /\ pc' = "next"
        ELSE /\ pc' = "except"
             /\ UNCHANGED <<process_history, process_data, tick>>
    /\ UNCHANGED <<max_history, buffers, leak_threshold, leak_detected, running,
                   tracked_processes, timestamp, host, process_mem, it, pid, slope,
                   signals, consumer, env, reader, ticks, recorded, lost, ops, call, stops>>

\* line 113 raises NoSuchProcess (the process is gone) or AccessDenied, caught at
\* line 116; line 117 -> line 76: if pid in self.tracked_processes
ProcQueryRaise ==
    /\ pc = "proc"
    /\ tick' = [tick EXCEPT !.failed = @ \cup {pid}]
    /\ lost' = lost \cup {pid}
    /\ pc' = IF pid \in Keys(tracked_processes) THEN "rm_tracked" ELSE "next"
    /\ UNCHANGED <<fields, locals, signals, consumer, env, reader, ticks, recorded, ops,
                   call, stops>>

\* line 77: del self.tracked_processes[pid]
RemoveTracked ==
    /\ pc = "rm_tracked"
    /\ IF pid \in Keys(tracked_processes)
       THEN /\ tracked_processes' = DictDel(tracked_processes, pid)
            /\ pc' = "rm_history"
       ELSE /\ pc' = "except"
            /\ UNCHANGED tracked_processes
    /\ UNCHANGED <<max_history, buffers, leak_threshold, leak_detected, running,
                   process_history, locals, signals, consumer, env, reader, ticks, recorded,
                   tick, lost, ops, call, stops>>

\* line 78: del self.process_history[pid]
RemoveHistory ==
    /\ pc = "rm_history"
    /\ IF pid \in HistKeys(process_history)
       THEN /\ process_history' = HistDel(process_history, pid)
            /\ pc' = "next"
       ELSE /\ pc' = "except"
            /\ UNCHANGED process_history
    /\ UNCHANGED <<max_history, buffers, leak_threshold, leak_detected, running,
                   tracked_processes, locals, signals, consumer, env, reader, ticks, recorded,
                   tick, lost, ops, call, stops>>

\* lines 120-124: the window test and the fit
LeakCheck ==
    /\ pc = "leak"
    /\ IF EnoughSamples(process_memory_history)
       THEN /\ slope' = ProjectedSlope(LastN(process_memory_history, LeakWindow))
            /\ tick' = [tick EXCEPT !.evaluated = TRUE]
            /\ pc' = "leak_if"
       ELSE /\ pc' = "emit"
            /\ UNCHANGED <<slope, tick>>
    /\ UNCHANGED <<fields, timestamp, host, process_mem, process_data, it, pid,
                   signals, consumer, env, reader, ticks, recorded, lost, ops, call, stops>>

\* mutant: the second test is an if of its own, made after the first branch too
LeakIfFallsThrough ==
    /\ pc = "leak_if"
    /\ tick' = [tick EXCEPT !.thr1 = leak_threshold, !.reads = 1]
    /\ IF RaiseCondition(slope, leak_threshold, leak_detected)
       THEN /\ leak_detected' = TRUE
            /\ leak_alert' = leak_alert + 1
       ELSE UNCHANGED <<leak_detected, leak_alert>>
    /\ pc' = "leak_elif"
    /\ UNCHANGED <<max_history, buffers, leak_threshold, running, registry, locals,
                   update_signal, consumer, env, reader, ticks, recorded, lost, ops, call, stops>>

\* lines 126-130: if slope > self.leak_threshold and not self.leak_detected
LeakIf ==
    /\ pc = "leak_if"
    /\ tick' = [tick EXCEPT !.thr1 = leak_threshold, !.reads = 1]
    /\ IF RaiseCondition(slope, leak_threshold, leak_detected)
       THEN /\ leak_detected' = TRUE
            /\ leak_alert' = leak_alert + 1
            /\ pc' = "emit"
       ELSE /\ pc' = "leak_elif"
            /\ UNCHANGED <<leak_detected, leak_alert>>
    /\ UNCHANGED <<max_history, buffers, leak_threshold, running, registry, locals,
                   update_signal, consumer, env, reader, ticks, recorded, lost, ops, call, stops>>

\* lines 131-133: elif slope <= self.leak_threshold and self.leak_detected
LeakElif ==
    /\ pc = "leak_elif"
    /\ tick' = [tick EXCEPT !.thr2 = leak_threshold, !.reads = 2]
    /\ leak_detected' = IF ClearCondition(slope, leak_threshold, leak_detected)
                        THEN FALSE ELSE leak_detected
    /\ pc' = "emit"
    /\ UNCHANGED <<max_history, buffers, leak_threshold, running, registry, locals,
                   signals, consumer, env, reader, ticks, recorded, lost, ops, call, stops>>

\* lines 136-148: current_stats = {...}; self.update_signal.emit(current_stats)
Emit ==
    /\ pc = "emit"
    /\ update_signal' = [n |-> update_signal.n + 1,
                         last |-> [timestamp |-> timestamp, host |-> host,
                                   process_memory |-> process_mem,
                                   leak_detected |-> leak_detected,
                                   process_data |-> process_data]]
    /\ pc' = "while"
    /\ UNCHANGED <<fields, locals, leak_alert, consumer, env, reader, ticks, recorded,
                   tick, lost, ops, call, stops>>

\* mutant: the exception leaves the loop
ExceptExits ==
    /\ pc = "except"
    /\ tick' = [tick EXCEPT !.aborted = TRUE]
    /\ pc' = "done"
    /\ UNCHANGED <<fields, locals, signals, consumer, env, reader, ticks, recorded, lost,
                   ops, call, stops>>

\* lines 150-151: except Exception: logging.error(...); line 153: time.sleep(1)
Except ==
    /\ pc = "except"
    /\ tick' = [tick EXCEPT !.aborted = TRUE]
    /\ pc' = "while"
    /\ UNCHANGED <<fields, locals, signals, consumer, env, reader, ticks, recorded, lost,
                   ops, call, stops>>

---------------------------------------------------------------------------
(* The GUI thread: calls on the tracker *)

Result(ok, msg) == [ok |-> ok, msg |-> msg]

\* where the sampler is when a call of the GUI thread starts: in the middle of
\* a tick or not, and after how many ticks
CallAt(name) == [name |-> name, mid |-> pc \notin {"while", "done"}, ticks |-> ticks]

\* mutant: the PID is put into tracked_processes before the process is looked up
AddProcessRegistersFirst(p) ==
    /\ cpc = "idle"
    /\ cpid' = p
    /\ tracked_processes' = DictSet(tracked_processes, p)
    /\ \E found \in BOOLEAN :
        IF found
        THEN /\ cpc' = "add_history"
             /\ cret' = NoResult
        ELSE /\ cpc' = "idle"
             /\ cret' = Result(FALSE, "NotFound")
    /\ ops' = ops + 1
    /\ call' = NoCall
    /\ UNCHANGED <<max_history, buffers, leak_threshold, leak_detected, running,
                   process_history, pc, locals, signals, env, reader, ticks, recorded,
                   tick, lost, stops>>

\* line 65: process = psutil.Process(pid) finds the process or raises
\* NoSuchProcess, caught at line 69
AddProcess(p) ==
    /\ cpc = "idle"
    /\ cpid' = p
    /\ \E found \in BOOLEAN :
        IF found
        THEN /\ cpc' = "add_tracked"
             /\ cret' = NoResult
        ELSE /\ cpc' = "idle"
             /\ cret' = Result(FALSE, "NotFound")
    /\ ops' = ops + 1
    /\ call' = NoCall
    /\ UNCHANGED <<fields, pc, locals, signals, env, reader, ticks, recorded, tick, lost, stops>>

\* line 66: self.tracked_processes[pid] = process
AddTracked ==
    /\ cpc = "add_tracked"
    /\ tracked_processes' = DictSet(tracked_processes, cpid)
    /\ lost' = lost \ {cpid}
    /\ cpc' = "add_history"
    /\ UNCHANGED <<max_history, buffers, leak_threshold, leak_detected, running,
                   process_history, pc, locals, signals, cpid, cret, env, reader, ticks,
                   recorded, tick, ops, call, stops>>

\* lines 67-68: self.process_history[pid] = deque(maxlen=self.max_history); return True
AddHistory ==
    /\ cpc = "add_history"
    /\ process_history' = HistSet(process_history, cpid)
    /\ lost' = lost \ {cpid}
    /\ cret' = Result(TRUE, "added")
    /\ cpc' = "idle"
    /\ UNCHANGED <<max_history, buffers, leak_threshold, leak_detected, running,
                   tracked_processes, pc, locals, signals, cpid, env, reader, ticks, recorded,
                   tick, ops, call, stops>>

\* mutant: the test of line 76 is dropped
RemoveProcessUnchecked(p) ==
    /\ cpc = "idle"
    /\ cpid' = p
    /\ cpc' = "rm_tracked"
    /\ cret' = NoResult
    /\ ops' = ops + 1
    /\ call' = NoCall
    /\ UNCHANGED <<fields, pc, locals, signals, env, reader, ticks, recorded, tick, lost, stops>>

\* line 76: if pid in self.tracked_processes; line 80 otherwise
RemoveProcess(p) ==
    /\ cpc = "idle"
    /\ cpid' = p
    /\ IF p \in Keys(tracked_processes)
       THEN /\ cpc' = "rm_tracked"
            /\ cret' = NoResult
       ELSE /\ cpc' = "idle"
            /\ cret' = Result(FALSE, "NotTracked")
    /\ ops' = ops + 1
    /\ call' = NoCall
    /\ UNCHANGED <<fields, pc, locals, signals, env, reader, ticks, recorded, tick, lost, stops>>

\* line 77: del self.tracked_processes[pid] (KeyError reaches the caller)
CallRemoveTracked ==
    /\ cpc = "rm_tracked"
    /\ IF cpid \in Keys(tracked_processes)
       THEN /\ tracked_processes' = DictDel(tracked_processes, cpid)
            /\ cpc' = "rm_history"
            /\ UNCHANGED cret
       ELSE /\ cpc' = "idle"
            /\ cret' = Result(FALSE, "KeyError")
            /\ UNCHANGED tracked_processes
    /\ UNCHANGED <<max_history, buffers, leak_threshold, leak_detected, running,
                   process_history, pc, locals, signals, cpid, env, reader, ticks, recorded,
                   tick, lost, ops, call, stops>>

\* lines 78-79: del self.process_history[pid]; return True
CallRemoveHistory ==
    /\ cpc = "rm_history"
    /\ IF cpid \in HistKeys(process_history)
       THEN /\ process_history' = HistDel(process_history, cpid)
            /\ cret' = Result(TRUE, "removed")
       ELSE /\ cret' = Result(FALSE, "KeyError")
            /\ UNCHANGED process_history
    /\ cpc' = "idle"
    /\ UNCHANGED <<max_history, buffers, leak_threshold, leak_detected, running,
                   tracked_processes, pc, locals, signals, cpid, env, reader, ticks, recorded,
                   tick, lost, ops, call, stops>>

\* what the properties remember of a call of update_leak_threshold(v)
ThresholdCall(v) == [name |-> "threshold", mid |-> FALSE, ticks |-> 0, v |-> v]

\* mutant: the new threshold is logged and not stored
UpdateLeakThresholdLogsOnly(v) ==
    /\ cpc = "idle"
    /\ cret' = NoResult
    /\ ops' = ops + 1
    /\ call' = ThresholdCall(v)
    /\ UNCHANGED <<fields, pc, locals, signals, cpc, cpid, env, reader, ticks, recorded, tick,
                   lost, stops>>

\* line 734: self.tracker.leak_threshold = value (the slot returns None)
UpdateLeakThreshold(v) ==
    /\ cpc = "idle"
    /\ leak_threshold' = v
    /\ cret' = NoResult
    /\ ops' = ops + 1
    /\ call' = ThresholdCall(v)
    /\ UNCHANGED <<max_history, buffers, leak_detected, running, registry, pc, locals,
                   signals, cpc, cpid, env, reader, ticks, recorded, tick, lost, stops>>

\* mutant: stop forgets to clear the flag
StopForgetsFlag ==
    /\ cpc = "idle"
    /\ cpc' = "wait"
    /\ cret' = NoResult
    /\ ops' = ops + 1
    /\ call' = CallAt("stop")
    /\ UNCHANGED <<fields, pc, locals, signals, cpid, env, reader, ticks, recorded, tick,
                   lost, stops>>

\* line 157: self.running = False (stop returns None)
Stop ==
    /\ cpc = "idle"
    /\ running' = FALSE
    /\ cpc' = "wait"
    /\ cret' = NoResult
    /\ ops' = ops + 1
    /\ call' = CallAt("stop")
    /\ UNCHANGED <<max_history, buffers, leak_threshold, leak_detected, registry, pc,
                   locals, signals, cpid, env, reader, ticks, recorded, tick, lost, stops>>

\* mutant: stop returns without waiting for run() to return
StopReturnNoWait ==
    /\ cpc = "wait"
    /\ cpc' = "idle"
    /\ stops' = stops + 1
    /\ UNCHANGED <<fields, pc, locals, signals, cpid, cret, env, reader, ticks, recorded,
                   tick, lost, ops, call>>

\* line 158: self.wait() returns once run() has returned
StopReturn ==
    /\ cpc = "wait"
    /\ pc = "done"
    /\ cpc' = "idle"
    /\ stops' = stops + 1
    /\ UNCHANGED <<fields, pc, locals, signals, cpid, cret, env, reader, ticks, recorded,
                   tick, lost, ops, call>>

---------------------------------------------------------------------------
(* The GUI thread: get_summary_stats and the get_history_df it calls       *)
(* (update_data, line 605, on every SnapshotEvent and 100 ms after start)   *)

Summary(kind) == [NoSummary EXCEPT !.kind = kind]

\* line 183: if not self.memory_history: return {}
GetSummaryStats ==
    /\ cpc = "idle"
    /\ data' = NoData
    /\ IF memory_history = <<>>
       THEN /\ stats' = Summary("empty")
            /\ cpc' = "idle"
       ELSE /\ stats' = Summary("pending")
            /\ cpc' = "df_timestamps"
    /\ cret' = NoResult
    /\ ops' = ops + 1
    /\ call' = CallAt("summary")
    /\ UNCHANGED <<fields, pc, locals, signals, cpid, df, env, ticks, recorded, tick, lost, stops>>

\* lines 705-708 and 634-637: export_data and update_history_log call
\* self.tracker.get_history_df()
GetHistoryDf ==
    /\ cpc = "idle"
    /\ data' = NoData
    /\ df' = [NoTable EXCEPT !.kind = "pending"]
    /\ cpc' = "df_timestamps"
    /\ cret' = NoResult
    /\ ops' = ops + 1
    /\ call' = CallAt("export")
    /\ UNCHANGED <<fields, pc, locals, signals, cpid, stats, env, ticks, recorded, tick, lost,
                   stops>>

\* lines 162-165: if not self.timestamps: return pd.DataFrame(), the table the
\* export gets, and in get_summary_stats df['used_memory'] of line 190 then
\* raises KeyError; 'timestamp': list(self.timestamps)
DfTimestamps ==
    /\ cpc = "df_timestamps"
    /\ IF timestamps = <<>>
       THEN /\ IF df.kind = "pending"
               THEN /\ df' = [NoTable EXCEPT !.kind = "empty"]
                    /\ UNCHANGED stats
               ELSE /\ stats' = Summary("KeyError")
                    /\ UNCHANGED df
            /\ cpc' = "idle"
            /\ UNCHANGED data
       ELSE /\ data' = [data EXCEPT !.timestamp = timestamps]
            /\ cpc' = "df_memory"
            /\ UNCHANGED <<stats, df>>
    /\ UNCHANGED <<fields, pc, locals, signals, cpid, cret, env, ticks, recorded, tick,
                   lost, ops, call, stops>>

\* mutant: the columns are taken out of self.memory_history
DfMemoryDrains ==
    /\ cpc = "df_memory"
    /\ data' = [data EXCEPT !.memory = memory_history]
    /\ memory_history' = <<>>
    /\ cpc' = "df_process"
    /\ UNCHANGED <<max_history, process_memory_history, timestamps, leak_threshold,
                   leak_detected, running, registry, pc, locals, signals, cpid, df, cret,
                   stats, env, ticks, recorded, tick, lost, ops, call, stops>>

\* lines 166-170: the five columns read from self.memory_history
DfMemory ==
    /\ cpc = "df_memory"
    /\ data' = [data EXCEPT !.memory = memory_history]
    /\ cpc' = "df_process"
    /\ UNCHANGED <<fields, pc, locals, signals, cpid, df, cret, stats, env, ticks, recorded,
                   tick, lost, ops, call, stops>>

\* line 171: 'process_memory': list(self.process_memory_history)
DfProcessMemory ==
    /\ cpc = "df_process"
    /\ data' = [data EXCEPT !.process_memory = process_memory_history]
    /\ cpc' = "df_tracked"
    /\ UNCHANGED <<fields, pc, locals, signals, cpid, df, cret, stats, env, ticks, recorded,
                   tick, lost, ops, call, stops>>

\* lines 174-176: one column per buffer of self.process_history
DfTracked ==
    /\ cpc = "df_tracked"
    /\ data' = [data EXCEPT !.procs = process_history]
    /\ cpc' = "df_build"
    /\ UNCHANGED <<fields, pc, locals, signals, cpid, df, cret, stats, env, ticks, recorded,
                   tick, lost, ops, call, stops>>

\* the lengths of the columns of the dict
ColumnLengths(d) ==
    {Len(d.timestamp), Len(d.memory), Len(d.process_memory)}
        \cup {Len(d.procs[i].hist) : i \in DOMAIN d.procs}

\* lines 164-176: the keys of the dict, in insertion order
BaseColumns ==
    <<"timestamp", "total_memory", "used_memory", "free_memory", "used_swap",
      "memory_percent", "process_memory">>

\* line 178: pd.DataFrame(data) of equally long columns: the columns in the
\* order of the dict's keys (the five host columns of a row are its host
\* record), one row per index
Table(d) ==
    [kind |-> "table",
     columns |-> BaseColumns,
     pids |-> [i \in DOMAIN d.procs |-> d.procs[i].pid],
     rows |-> [i \in DOMAIN d.timestamp |->
                 [timestamp |-> d.timestamp[i],
                  host |-> d.memory[i],
                  process_memory |-> d.process_memory[i],
                  procs |-> [p \in HistKeys(d.procs) |-> Hist(d.procs, p)[i]]]]]

\* line 178, called for an export: return pd.DataFrame(data), which raises
\* ValueError (All arrays must be of the same length) unless the columns are
\* equally long
DfReturn ==
    /\ cpc = "df_build"
    /\ df.kind = "pending"
    /\ df' = IF Cardinality(ColumnLengths(data)) > 1
             THEN [NoTable EXCEPT !.kind = "ValueError"]
             ELSE Table(data)
    /\ cpc' = "idle"
    /\ UNCHANGED <<fields, pc, locals, signals, cpid, cret, data, stats, env, ticks, recorded,
                   tick, lost, ops, call, stops>>

\* line 178: pd.DataFrame(data) raises ValueError (All arrays must be of the
\* same length) unless the columns are equally long; lines 187-194: the host
\* and self statistics and self.leak_detected
DfBuild ==
    /\ cpc = "df_build"
    /\ df.kind # "pending"
    /\ IF Cardinality(ColumnLengths(data)) > 1
       THEN /\ stats' = Summary("ValueError")
            /\ cpc' = "idle"
       ELSE /\ stats' = [kind |-> "pending",
                         avg_memory_usage |-> RoundedMean(Column(data.memory, "used")),
                         max_memory_usage |-> RoundedMax(Column(data.memory, "used")),
                         avg_process_memory |-> RoundedMean(data.process_memory),
                         max_process_memory |-> RoundedMax(data.process_memory),
                         leak_detected |-> leak_detected,
                         procs |-> <<>>]
            /\ cpc' = "sum_tracked"
    /\ UNCHANGED <<fields, pc, locals, signals, cpid, df, cret, data, env, ticks, recorded,
                   tick, lost, ops, call, stops>>

\* lines 197-203: for pid in self.tracked_processes.keys(): the statistics of
\* the PID's column, if df has one; return stats
SummaryTracked ==
    /\ cpc = "sum_tracked"
    /\ stats' = [stats EXCEPT
            !.kind = "stats",
            !.procs = [p \in Keys(tracked_processes) \cap HistKeys(data.procs) |->
                         [avg |-> RoundedMean(Hist(data.procs, p)),
                          max |-> RoundedMax(Hist(data.procs, p))]]]
    /\ cpc' = "idle"
    /\ UNCHANGED <<fields, pc, locals, signals, cpid, df, cret, data, env, ticks, recorded,
                   tick, lost, ops, call, stops>>

---------------------------------------------------------------------------
(* Specifications *)

\* The tracker with a small history, alternating readings, tracked processes
\* and the calls of the GUI thread. With max_history <= 30 the test of line 120 never
\* passes, so lines 121-133 are not reached here.
Next ==
    \/ (ticks < MaxTicks /\ WhileEnter)
    \/ WhileExit
    \/ QueryOk
    \/ QueryRaise
    \/ StoreMemory
    \/ StoreSelf
    \/ IterStart
    \/ IterNext
    \/ ProcStore
    \/ ProcQueryRaise
    \/ RemoveTracked
    \/ RemoveHistory
    \/ LeakCheck
    \/ Emit
    \/ Except
    \/ (ops < MaxOps /\ \E p \in Pids : AddProcess(p))
    \/ AddTracked
    \/ AddHistory
    \/ (ops < MaxOps /\ \E p \in Pids : RemoveProcess(p))
    \/ CallRemoveTracked
    \/ CallRemoveHistory
    \/ (ops < MaxOps /\ Stop)
    \/ StopReturn

Spec == Init /\ [][Next]_vars

\* The leak detector: a history long enough for the window, a scripted
\* source, no tracked process, and threshold changes from the GUI thread.
NextLeak ==
    \/ (ticks < LeakTicks /\ WhileEnter)
    \/ QueryOk
    \/ QueryRaise
    \/ StoreMemory
    \/ StoreSelf
    \/ IterStart
    \/ IterNext
    \/ LeakCheck
    \/ LeakIf
    \/ LeakElif
    \/ Emit
    \/ Except
    \/ (ops < LeakOps /\ \E v \in Thresholds : UpdateLeakThreshold(v))

SpecLeak == InitLeak /\ [][NextLeak]_vars

\* The history store alone: the sampling thread with no tracked process and
\* no call from the GUI thread.
NextStore ==
    \/ (ticks < StoreTicks /\ WhileEnter)
    \/ QueryOk
    \/ QueryRaise
    \/ StoreMemory
    \/ StoreSelf
    \/ IterStart
    \/ IterNext
    \/ LeakCheck
    \/ Emit
    \/ Except

SpecStore == InitStore /\ [][NextStore]_vars

\* The summary of the host and self series: the sampling thread with no
\* tracked process and get_summary_stats called at any point.
NextSummary ==
    \/ (ticks < SummaryTicks /\ WhileEnter)
    \/ QueryOk
    \/ QueryRaise
    \/ StoreMemory
    \/ StoreSelf
    \/ IterStart
    \/ IterNext
    \/ LeakCheck
    \/ Emit
    \/ Except
    \/ (ops < SummaryOps /\ GetSummaryStats)
    \/ DfTimestamps
    \/ DfMemory
    \/ DfProcessMemory
    \/ DfTracked
    \/ DfBuild
    \/ SummaryTracked

SpecSummary == InitStore /\ [][NextSummary]_vars

\* The summary of tracked processes: the small tracker with track calls and
\* get_summary_stats called at any point.
NextTracked ==
    \/ (ticks < MaxTicks /\ WhileEnter)
    \/ QueryOk
    \/ QueryRaise
    \/ StoreMemory
    \/ StoreSelf
    \/ IterStart
    \/ IterNext
    \/ ProcStore
    \/ ProcQueryRaise
    \/ RemoveTracked
    \/ RemoveHistory
    \/ LeakCheck
    \/ Emit
    \/ Except
    \/ (ops < MaxOps /\ \E p \in Pids : AddProcess(p))
    \/ AddTracked
    \/ AddHistory
    \/ (ops < MaxOps /\ GetSummaryStats)
    \/ (ops < MaxOps /\ GetHistoryDf)
    \/ DfTimestamps
    \/ DfMemory
    \/ DfProcessMemory
    \/ DfTracked
    \/ DfBuild
    \/ DfReturn
    \/ SummaryTracked

SpecTracked == Init /\ [][NextTracked]_vars

\* The read-only calls: the small tracker with track calls, and
\* get_summary_stats and get_history_df called at any point.
NextReadOnly ==
    \/ (ticks < ReadTicks /\ WhileEnter)
    \/ QueryOk
    \/ QueryRaise
    \/ StoreMemory
    \/ StoreSelf
    \/ IterStart
    \/ IterNext
    \/ ProcStore
    \/ ProcQueryRaise
    \/ RemoveTracked
    \/ RemoveHistory
    \/ LeakCheck
    \/ Emit
    \/ Except
    \/ (ops < ReadOps /\ \E p \in Pids : AddProcess(p))
    \/ AddTracked
    \/ AddHistory
    \/ (ops < ReadOps /\ GetSummaryStats)
    \/ (ops < ReadOps /\ GetHistoryDf)
    \/ DfTimestamps
    \/ DfMemory
    \/ DfProcessMemory
    \/ DfTracked
    \/ DfBuild
    \/ DfReturn
    \/ SummaryTracked

SpecReadOnly == Init /\ [][NextReadOnly]_vars

\* Shutdown: the sampling thread and stop(), called at any point of a tick.
\* The sampling thread is scheduled again and again (every query returns or
\* raises, and sleep(1) returns), and QThread.wait() returns once run() has.
SamplerShutdown ==
    \/ (ticks < StoreTicks /\ WhileEnter)
    \/ WhileExit
    \/ QueryOk
    \/ QueryRaise
    \/ StoreMemory
    \/ StoreSelf
    \/ IterStart
    \/ IterNext
    \/ LeakCheck
    \/ Emit
    \/ Except

NextShutdown ==
    \/ SamplerShutdown
    \/ (ops < ShutdownOps /\ Stop)
    \/ StopReturn

SpecShutdown ==
    InitStore /\ [][NextShutdown]_vars /\ WF_vars(SamplerShutdown) /\ WF_vars(StopReturn)

---------------------------------------------------------------------------
(* Properties *)

\* the tick counted by `ticks` has run to its end
TickDone == pc = "while" /\ ticks > 0

\* no call of the GUI thread was in progress when the tick started and none
\* was made during it
QuietTick == tick.quiet /\ ops = tick.ops0 /\ cpc = "idle"

\* C1: in every reachable state, in particular at every point where the GUI
\* thread can read the buffers, timestamps, memory_history and
\* process_memory_history have the same length.
C1_TimeAligned ==
    /\ Len(timestamps) = Len(memory_history)
    /\ Len(memory_history) = Len(process_memory_history)

\* C2: in every reachable state the three aligned buffers and every per-PID
\* buffer of process_history hold at most max_history elements.
C2_BoundedBuffers ==
    /\ Len(timestamps) <= max_history
    /\ Len(memory_history) <= max_history
    /\ Len(process_memory_history) <= max_history
    /\ \A i \in DOMAIN process_history : Len(process_history[i].hist) <= max_history

\* C2 witness: more ticks were recorded than the buffers hold, the aligned
\* buffers are full, and a full per-PID buffer has just taken one more sample.
C2_Witness ==
    /\ Len(recorded) > max_history
    /\ Len(timestamps) = max_history
    /\ Len(process_memory_history) = max_history
    /\ \E i \in DOMAIN process_history :
        /\ Len(process_history[i].hist) = max_history
        /\ process_history[i].pid \in {tick.sampled[j] : j \in DOMAIN tick.sampled}
        /\ ticks > max_history

\* C3: eviction is FIFO: once a tick has run to its end, each of the three
\* aligned buffers holds the last min(k, max_history) of the k values recorded
\* so far, in arrival order.
C3_FifoEviction ==
    pc = "while" =>
        /\ timestamps = LastN(Column(recorded, "timestamp"), max_history)
        /\ memory_history = LastN(Column(recorded, "host"), max_history)
        /\ process_memory_history = LastN(Column(recorded, "self"), max_history)

\* C3 witness: five ticks were recorded into buffers of three, with readings
\* that differ, so that the order is visible.
C3_Witness ==
    /\ pc = "while"
    /\ Len(recorded) = StoreTicks
    /\ Len(process_memory_history) = max_history
    /\ max_history < StoreTicks
    /\ process_memory_history[1] # process_memory_history[2]
    /\ recorded[1].self # process_memory_history[1]

\* C4: a tick whose host and self queries succeeded publishes exactly one
\* SnapshotEvent, also when the query of a tracked PID failed during the tick
\* (stated for ticks the GUI thread does not interfere with).
C4_OneEventPerGoodTick ==
    (TickDone /\ tick.ok /\ QuietTick) => update_signal.n = tick.upd0 + 1

\* C5: the per-process step attempts every PID tracked at its start; every PID
\* whose query succeeds gets exactly one new sample and is in process_data,
\* every PID whose query fails is left out of it (stated for ticks the GUI
\* thread does not interfere with).
C5_AllTrackedSampled ==
    (TickDone /\ tick.ok /\ QuietTick) =>
        /\ tick.start_keys \subseteq tick.attempted
        /\ \A p \in tick.start_keys \ tick.failed :
            /\ Cardinality({j \in DOMAIN tick.sampled : tick.sampled[j] = p}) = 1
            /\ p \in DOMAIN process_data
        /\ \A p \in tick.failed : p \notin DOMAIN process_data

\* C6: a PID whose query failed during a tick, and which the GUI thread has
\* not tracked again since, is in neither tracked_processes nor
\* process_history when the next tick starts.
C6_SelfHealing ==
    pc = "query" =>
        \A p \in lost :
            /\ p \notin Keys(tracked_processes)
            /\ p \notin HistKeys(process_history)

\* C7: once the leak stage of a tick is over, the trend was evaluated in that
\* tick if and only if the self-process history holds at least 30 samples, and
\* without an evaluation leak_detected kept its value.
C7_EvaluatesFromThirty ==
    pc = "emit" =>
        /\ tick.evaluated <=> Len(process_memory_history) >= LeakWindow
        /\ ~tick.evaluated => leak_detected = tick.before

\* C8: from an empty history, threshold 10 and a 1 s period, 30 ticks whose
\* self-process samples grow by 20 MB per tick raise the leak state once, with
\* one alert; 30 ticks of a constant sample raise nothing.
C8_ThirtyTickRamp ==
    (source.fail = {} /\ ops = 0 /\ leak_threshold = 10) =>
        /\ (source.r1 = 20 /\ ticks = LeakWindow /\ pc = "while")
              => (leak_detected /\ leak_alert = 1)
        /\ (source.r1 = 0 /\ ticks <= LeakWindow)
              => (~leak_detected /\ leak_alert = 0)

\* C9: a tick emits a leak alert if and only if it changes leak_detected from
\* False to True, and then exactly one; a tick that starts in the Active state
\* or that moves Active -> Clear emits none.
C9_AlertOnlyOnRise ==
    TickDone =>
        leak_alert - tick.alert0 = (IF ~tick.before /\ leak_detected THEN 1 ELSE 0)

\* C9 witness: two alerts were emitted, so a tick in between moved the
\* detector Active -> Clear without one.
C9_Witness ==
    /\ TickDone
    /\ leak_alert = 2
    /\ leak_detected

\* The least-squares slope in centred form: sum((x - xm) * y) / sum((x - xm)^2)
\* with xm the mean of x = 0..n-1; both sums are taken over 2*(x - xm), which is
\* whole, so that the slope is 2 * CentredNum / CentredDen.
CentredNum(ys) ==
    SumTo([i \in 1..Len(ys) |-> (2 * (i - 1) - (Len(ys) - 1)) * ys[i]], Len(ys))
CentredDen(n) ==
    SumTo([i \in 1..n |-> (2 * (i - 1) - (n - 1)) * (2 * (i - 1) - (n - 1))], n)

\* C10: on a tick that evaluates (with the threshold it read unchanged during
\* the evaluation), the projected rate is 60 times the least-squares slope of
\* the 30 most recent self-process samples against 0..29, and afterwards
\* leak_detected is True exactly when that rate is > the threshold, whatever
\* the state before the tick. (slope.num / slope.den = 60 * 2 * CentredNum /
\* CentredDen is stated through den = 30 * CentredDen / 4.)
C10_StateFollowsRate ==
    (pc = "emit" /\ tick.evaluated /\ (tick.reads = 1 \/ tick.thr1 = tick.thr2)) =>
        LET recent == LastN(process_memory_history, 30) IN
            /\ Len(recent) = 30
            /\ 4 * slope.den = 30 * CentredDen(30)
            /\ 4 * slope.num = 60 * 2 * 30 * CentredNum(recent)
            /\ leak_detected <=> (60 * 2 * CentredNum(recent) > tick.thr1 * CentredDen(30))

\* C10 witness: an evaluation that started Active found the projected rate
\* equal to the threshold and ended Clear.
C10_Witness ==
    /\ pc = "emit"
    /\ tick.evaluated
    /\ tick.reads = 2
    /\ tick.thr1 = tick.thr2
    /\ tick.before
    /\ slope.num = tick.thr1 * slope.den
    /\ ~leak_detected

\* C11: a tick whose host or self query raised is caught inside the loop: once
\* it is over it has published no SnapshotEvent and no leak alert, and the
\* loop is back at its test; the loop has exited only if running is False.
C11_QueryErrorSkipsTick ==
    /\ (TickDone /\ ~tick.ok) =>
          (tick.aborted /\ update_signal.n = tick.upd0 /\ leak_alert = tick.alert0)
    /\ pc = "done" => ~running

\* C11 witness: a tick ran to its publish step after an earlier tick had
\* failed on its queries (fewer ticks recorded than started), with the loop
\* still running.
C11_Witness ==
    /\ TickDone
    /\ tick.ok
    /\ Len(recorded) < ticks
    /\ update_signal.n = tick.upd0 + 1
    /\ running

\* C12: in every reachable state the PIDs of tracked_processes are the PIDs of
\* process_history: every registered PID has a buffer and there is no buffer
\* for an unregistered PID.
C12_RegistryConsistent ==
    Keys(tracked_processes) = HistKeys(process_history)

\* the sampler is between the first buffer write of a tick (line 99) and its
\* publish step (line 148)
InTick ==
    pc \in {"store_mem", "store_self", "iter", "next", "proc", "rm_tracked",
            "rm_history", "leak", "leak_if", "leak_elif", "emit"}

\* the step is a step of the GUI thread
ConsumerStep == <<cpc, ops>>' # <<cpc, ops>>

\* C13: track, untrack and set_threshold take effect only between ticks: no
\* step of the GUI thread changes tracked_processes, process_history or
\* leak_threshold while the sampler is between its first buffer write and its
\* publish step, and a tick is aborted only by a query of its own that failed.
C13_ConsumerBetweenTicks ==
    /\ [][(InTick /\ ConsumerStep) =>
            UNCHANGED <<tracked_processes, process_history, leak_threshold>>]_vars
    /\ [](tick.aborted => (~tick.ok \/ tick.failed # {}))

\* the step is a call of add_process_to_track that found no process
NotFoundStep == ops' = ops + 1 /\ cret'.msg = "NotFound"

\* C14 as stated: track(pid) for a PID with no live process returns the
\* NotFound failure result and leaves tracked_processes and process_history
\* as they were, and the PID is in neither map afterwards.
C14_NotFoundLeavesAbsent ==
    [][NotFoundStep =>
        /\ cret' = Result(FALSE, "NotFound")
        /\ UNCHANGED <<tracked_processes, process_history>>
        /\ cpid' \notin Keys(tracked_processes')
        /\ cpid' \notin HistKeys(process_history')]_vars

\* C14 amended: track(pid) for a PID with no live process returns the NotFound
\* failure result and leaves tracked_processes and process_history exactly as
\* they were: the PID is never registered in one map only by the call, and a
\* PID that was in neither map is in neither afterwards.
C14_NotFoundNoChange ==
    [][NotFoundStep =>
        /\ cret' = Result(FALSE, "NotFound")
        /\ UNCHANGED <<tracked_processes, process_history>>
        /\ (cpid' \in Keys(tracked_processes')) = (cpid' \in Keys(tracked_processes))
        /\ (cpid' \in HistKeys(process_history')) = (cpid' \in HistKeys(process_history))]_vars

\* C14 witness: with another PID tracked, a track call for an untracked PID
\* has returned NotFound and the PID is in neither map.
C14_Witness ==
    /\ cpc = "idle"
    /\ cret = Result(FALSE, "NotFound")
    /\ cpid \notin Keys(tracked_processes)
    /\ cpid \notin HistKeys(process_history)
    /\ Keys(tracked_processes) # {}
    /\ Keys(tracked_processes) = HistKeys(process_history)

\* the last call of the GUI thread was remove_tracked_process and it is over
UntrackReturned == cpc = "idle" /\ cret.msg \in {"removed", "NotTracked", "KeyError"}

\* the entry and the buffer of PID q are the same before and after the step
EntryUnchanged(q) ==
    /\ (q \in Keys(tracked_processes')) = (q \in Keys(tracked_processes))
    /\ (q \in HistKeys(process_history')) = (q \in HistKeys(process_history))
    /\ q \in HistKeys(process_history) =>
          Hist(process_history', q) = Hist(process_history, q)

\* C15: a PID enters the maps only through track; once the untrack that
\* follows has returned, and until the next call, tracked_processes has no
\* entry and process_history no buffer for the PID, whatever ticks ran in
\* between; no step of a track or untrack call changes the entry or the buffer
\* of another PID.
C15_TrackUntrackRoundTrip ==
    /\ [](UntrackReturned =>
            (cpid \notin Keys(tracked_processes) /\ cpid \notin HistKeys(process_history)))
    /\ [][ConsumerStep => \A q \in Pids \ {cpid'} : EntryUnchanged(q)]_vars

\* the step is the first step of a call of remove_tracked_process
UntrackCallStep ==
    /\ cpc = "idle"
    /\ ops' = ops + 1
    /\ (cpc' = "rm_tracked" \/ cret'.msg = "NotTracked")

\* C16: untrack(pid) for a PID that is not in tracked_processes when the call
\* is made (never tracked, already untracked, or evicted by the sampler)
\* returns the NotTracked failure result at once, without raising, and changes
\* neither the registry nor any buffer.
C16_UntrackNotTracked ==
    [][(UntrackCallStep /\ cpid' \notin Keys(tracked_processes)) =>
        /\ cpc' = "idle"
        /\ cret' = Result(FALSE, "NotTracked")
        /\ UNCHANGED <<registry, buffers>>]_vars

\* C16 witness: untrack has returned NotTracked for a PID that the sampler
\* evicted after a failed query.
C16_Witness ==
    /\ cpc = "idle"
    /\ cret = Result(FALSE, "NotTracked")
    /\ cpid \in lost
    /\ cpid \notin Keys(tracked_processes)
    /\ cpid \notin HistKeys(process_history)

\* C17: stop() is final and idempotent: once a call of stop() has returned the
\* loop has exited, from then on it makes no tick (no buffer append, no leak
\* evaluation, no emission), and a further call of stop() finds the loop
\* exited, so that its wait() returns at once, and changes no field.
C17_StopFinal ==
    /\ [](stops > 0 => pc = "done")
    /\ [][pc = "done" =>
            (pc' = "done" /\ UNCHANGED <<buffers, signals, leak_detected, ticks, recorded>>)]_vars
    /\ [][(stops > 0 /\ cpc = "idle" /\ cpc' = "wait") =>
            (pc = "done" /\ UNCHANGED <<fields, signals>>)]_vars

\* C17 witness: stop() has returned twice, after the loop had run and published.
C17_Witness ==
    /\ stops = 2
    /\ cpc = "idle"
    /\ pc = "done"
    /\ update_signal.n > 0

\* C18: once stop() is called the loop eventually exits and stop() returns;
\* after it has returned the loop has exited and every tick that recorded,
\* also one in flight when stop() was called, made all three of its appends:
\* the three buffers hold the last max_history recorded values.
C18_CleanShutdown ==
    /\ (cpc = "wait") ~> (cpc = "idle" /\ pc = "done")
    /\ [](stops > 0 =>
            /\ pc = "done"
            /\ timestamps = LastN(Column(recorded, "timestamp"), max_history)
            /\ memory_history = LastN(Column(recorded, "host"), max_history)
            /\ process_memory_history = LastN(Column(recorded, "self"), max_history))

\* C18 witness: stop() has returned after it was called in the middle of the
\* last tick, and that tick recorded its sample.
C18_Witness ==
    /\ stops > 0
    /\ call.name = "stop"
    /\ call.mid
    /\ call.ticks = ticks
    /\ tick.ok
    /\ Len(timestamps) = Len(process_memory_history)
    /\ timestamps[Len(timestamps)] = ticks

\* the last call of get_summary_stats was made between two ticks, it has
\* returned, and no tick has started since
QuietSummary ==
    /\ cpc = "idle"
    /\ call.name = "summary"
    /\ stats.kind # "none"
    /\ ~call.mid
    /\ call.ticks = ticks

\* C19: when at least one tick has been recorded and some PIDs are tracked,
\* get_summary() returns, for every tracked PID, the mean (rounded to two
\* decimals) and the maximum of exactly the samples in the PID's buffer, also
\* when that buffer is shorter than the timestamp series (stated for calls made
\* between two ticks, with every tracked PID holding a buffer; statistics are
\* in hundredths of a MB).
C19_PerPidSummary ==
    (QuietSummary /\ Len(recorded) >= 1 /\ Keys(tracked_processes) # {}
        /\ Keys(tracked_processes) = HistKeys(process_history)) =>
        /\ stats.kind = "stats"
        /\ \A p \in Keys(tracked_processes) :
            LET h == Hist(process_history, p)
                d == 100 * Sy(h) - Len(h) * stats.procs[p].avg
            IN  h # <<>> =>
                  /\ p \in DOMAIN stats.procs
                  /\ 2 * d <= Len(h) /\ 0 - Len(h) <= 2 * d
                  /\ stats.procs[p].max = 100 * SeqMax(h)

\* the host used-memory and self-process values of the ticks recorded so far
UsedRecorded == Column(Column(recorded, "host"), "used")
SelfRecorded == Column(recorded, "self")

\* C20 as stated: get_summary() returns an empty result when no sample has
\* been recorded; after k >= 1 successful ticks with no tracked process
\* (k <= capacity) its host-used and self-process mean and max equal the
\* arithmetic mean and the maximum of exactly the k recorded values
\* (statistics are in hundredths of a MB, samples in MB).
C20_SummaryExactMean ==
    /\ (QuietSummary /\ recorded = <<>>) => stats.kind = "empty"
    /\ (QuietSummary /\ Len(recorded) >= 1 /\ Len(recorded) <= max_history
            /\ Keys(tracked_processes) = {}) =>
          /\ stats.kind = "stats"
          /\ stats.avg_memory_usage * Len(recorded) = 100 * Sy(UsedRecorded)
          /\ stats.max_memory_usage = 100 * SeqMax(UsedRecorded)
          /\ stats.avg_process_memory * Len(recorded) = 100 * Sy(SelfRecorded)
          /\ stats.max_process_memory = 100 * SeqMax(SelfRecorded)

\* C20 amended: as C20, with each mean rounded to two decimals: the mean
\* returned is a whole number of hundredths and lies within half a hundredth
\* of the arithmetic mean of the k recorded values (for k = 1 it is the value).
C20_SummaryRoundedMean ==
    /\ (QuietSummary /\ recorded = <<>>) => stats.kind = "empty"
    /\ (QuietSummary /\ Len(recorded) >= 1 /\ Len(recorded) <= max_history
            /\ Keys(tracked_processes) = {}) =>
          LET k == Len(recorded)
              du == 100 * Sy(UsedRecorded) - k * stats.avg_memory_usage
              ds == 100 * Sy(SelfRecorded) - k * stats.avg_process_memory
          IN  /\ stats.kind = "stats"
              /\ 2 * du <= k /\ 0 - k <= 2 * du
              /\ stats.max_memory_usage = 100 * SeqMax(UsedRecorded)
              /\ 2 * ds <= k /\ 0 - k <= 2 * ds
              /\ stats.max_process_memory = 100 * SeqMax(SelfRecorded)
              /\ k = 1 => /\ stats.avg_memory_usage = 100 * UsedRecorded[1]
                          /\ stats.avg_process_memory = 100 * SelfRecorded[1]

\* C20 witness: a summary taken after three recorded ticks whose host-used
\* mean is not a whole number of hundredths.
C20_Witness ==
    /\ QuietSummary
    /\ stats.kind = "stats"
    /\ Len(recorded) = 3
    /\ Len(recorded) <= max_history
    /\ (100 * Sy(UsedRecorded)) % 3 # 0

\* an export that was called and has returned between two ticks
QuietExport ==
    /\ cpc = "idle"
    /\ call.name = "export"
    /\ df.kind \notin {"none", "pending"}
    /\ ~call.mid
    /\ call.ticks = ticks

\* the ticks whose samples the buffers still hold
Retained == LastN(recorded, max_history)

\* C21: get_history_df returns an empty table when no tick has been recorded,
\* and otherwise a table of one row per retained tick, holding the tick's
\* timestamp, host values and self-process memory, with the columns timestamp,
\* total, used, free, swap, percent, self-process memory followed by one column
\* per currently tracked PID (stated for calls made between two ticks).
C21_ExportTable ==
    QuietExport =>
        IF recorded = <<>>
        THEN df.kind = "empty"
        ELSE /\ df.kind = "table"
             /\ df.columns = BaseColumns
             /\ {df.pids[i] : i \in DOMAIN df.pids} = Keys(tracked_processes)
             /\ Len(df.pids) = Cardinality(Keys(tracked_processes))
             /\ Len(df.rows) = Len(Retained)
             /\ \A i \in DOMAIN df.rows :
                    /\ df.rows[i].timestamp = Retained[i].timestamp
                    /\ df.rows[i].host = Retained[i].host
                    /\ df.rows[i].process_memory = Retained[i].self

\* the step is a step of get_summary_stats or of get_history_df
ReadStep == ConsumerStep /\ call'.name \in {"summary", "export"}

\* C24: get_summary_stats and get_history_df are read-only: no step of either
\* call, in any state, changes timestamps, memory_history,
\* process_memory_history, a per-PID buffer, the registry, leak_threshold or
\* leak_detected.
C24_ReadOnly ==
    [][ReadStep =>
        UNCHANGED <<timestamps, memory_history, process_memory_history, process_history,
                    tracked_processes, leak_threshold, leak_detected>>]_vars

\* an export has returned a table with the column of a tracked PID, and a
\* summary has returned statistics
C24_Witness ==
    /\ cpc = "idle"
    /\ \/ /\ call.name = "export"
          /\ df.kind = "table"
          /\ df.pids # <<>>
          /\ df.rows # <<>>
       \/ /\ call.name = "summary"
          /\ stats.kind = "stats"
          /\ DOMAIN stats.procs # {}

\* the step is the call set_threshold
ThresholdStep == ops' # ops /\ call'.name = "threshold"

\* C22: once set_threshold(v) has returned, every comparison of a leak
\* evaluation made before the next set_threshold reads v and has the outcome
\* of comparing the projected rate with v (line 126 raises the flag and emits
\* one alert, line 131 clears the flag); set_threshold itself changes neither
\* leak_detected nor a buffer and emits no alert.
C22_ThresholdApplies ==
    [][/\ (call.name = "threshold" /\ pc = "leak_if" /\ pc' # pc) =>
            /\ tick'.thr1 = call.v
            /\ leak_detected' = (leak_detected \/ RaiseCondition(slope, call.v, leak_detected))
            /\ leak_alert' = leak_alert
                    + (IF RaiseCondition(slope, call.v, leak_detected) THEN 1 ELSE 0)
       /\ (call.name = "threshold" /\ pc = "leak_elif" /\ pc' # pc) =>
            /\ tick'.thr2 = call.v
            /\ leak_detected' = (leak_detected /\ ~ClearCondition(slope, call.v, leak_detected))
            /\ leak_alert' = leak_alert
       /\ ThresholdStep =>
            UNCHANGED <<leak_detected, buffers, process_history, leak_alert, update_signal>>
      ]_vars

\* a tick evaluated after set_threshold(v), with v not the default, has
\* cleared the flag that the default threshold had raised
C22_Witness ==
    /\ pc = "emit"
    /\ tick.evaluated
    /\ call.name = "threshold"
    /\ call.v # DefaultThreshold
    /\ tick.reads = 2
    /\ tick.thr2 = call.v
    /\ tick.before
    /\ ~leak_detected

\* what lines 126-133 do with the rate sl and the flag detected when both
\* comparisons read the threshold thr: the new flag and the alerts emitted
LeakOutcome(sl, thr, detected) ==
    IF RaiseCondition(sl, thr, detected)
    THEN [detected |-> TRUE, alerts |-> 1]
    ELSE IF ClearCondition(sl, thr, detected)
         THEN [detected |-> FALSE, alerts |-> 0]
         ELSE [detected |-> detected, alerts |-> 0]

\* the thresholds that the comparisons of the tick have read
ThresholdsRead == {tick.thr1} \cup (IF tick.reads = 2 THEN {tick.thr2} ELSE {})

\* C27: with set_threshold running concurrently with a tick, the flag and the
\* alerts that the tick's leak evaluation leaves are those of evaluating the
\* same projected rate against one of the threshold values that the tick read.
C27_SingleThresholdOutcome ==
    (pc = "emit" /\ tick.evaluated) =>
        [detected |-> leak_detected, alerts |-> leak_alert - tick.alert0]
            \in {LeakOutcome(slope, thr, tick.before) : thr \in ThresholdsRead}

\* an evaluation has read two thresholds under which the outcomes differ
C27_Witness ==
    /\ pc = "emit"
    /\ tick.evaluated
    /\ tick.reads = 2
    /\ tick.thr1 # tick.thr2
    /\ LeakOutcome(slope, tick.thr1, tick.before) # LeakOutcome(slope, tick.thr2, tick.before)

\* the step is a step of the sampling thread in a tick whose queries have not
\* (or not yet) returned
UnsampledTickStep == pc' # pc /\ ~tick'.ok /\ pc' # "done"

\* C25: a tick in which the host or self-process memory query raises leaves
\* timestamps, memory_history, process_memory_history, every per-PID buffer,
\* the registry and leak_detected unchanged: no step of the sampling thread
\* from the start of such a tick to its end changes any of them.
C25_FailedTickChangesNothing ==
    [][UnsampledTickStep =>
        UNCHANGED <<timestamps, memory_history, process_memory_history, process_history,
                    tracked_processes, leak_detected>>]_vars

\* a tick whose query raised is over, after a tick that had recorded a sample
\* of a tracked PID
C25_Witness ==
    /\ TickDone
    /\ ~tick.ok
    /\ tick.aborted
    /\ timestamps # <<>>
    /\ \E p \in Keys(tracked_processes) \cap HistKeys(process_history) :
            Hist(process_history, p) # <<>>

\* the step is line 66, or lines 67-68, of a track call for a PID that has an
\* entry and a buffer
TrackAgainEntry ==
    /\ cpc = "add_tracked"
    /\ cpc' # cpc
    /\ cpid \in Keys(tracked_processes) \cap HistKeys(process_history)
TrackAgainBuffer ==
    /\ cpc = "add_history"
    /\ cpc' # cpc
    /\ cpid \in Keys(tracked_processes) \cap HistKeys(process_history)

\* C26: track(pid) on a PID that is already tracked returns success and
\* replaces the PID's buffer with an empty one; the registry then holds exactly
\* one entry and one buffer for the PID, and no step of the call changes the
\* entry or the buffer of another PID.
C26_TrackAgainResets ==
    [][/\ TrackAgainEntry =>
            /\ tracked_processes' = tracked_processes
            /\ process_history' = process_history
       /\ TrackAgainBuffer =>
            /\ cret' = Result(TRUE, "added")
            /\ cpc' = "idle"
            /\ Hist(process_history', cpid) = <<>>
            /\ Cardinality({i \in DOMAIN process_history' :
                               process_history'[i].pid = cpid}) = 1
            /\ Cardinality({i \in DOMAIN tracked_processes' :
                               tracked_processes'[i] = cpid}) = 1
            /\ \A q \in Pids \ {cpid} : EntryUnchanged(q)
      ]_vars

\* track has returned success for a PID whose sample had been published, and
\* the PID's buffer is empty
C26_Witness ==
    /\ cpc = "idle"
    /\ pc = "while"
    /\ cret = Result(TRUE, "added")
    /\ update_signal.n >= 1
    /\ cpid \in DOMAIN update_signal.last.process_data
    /\ cpid \notin tick.failed
    /\ cpid \in Keys(tracked_processes) \cap HistKeys(process_history)
    /\ Hist(process_history, cpid) = <<>>

\* the step publishes a SnapshotEvent (line 148)
PublishStep == update_signal'.n # update_signal.n

\* the event e agrees with the three aligned series
EventMatchesSeries(e) ==
    /\ timestamps # <<>>
    /\ memory_history # <<>>
    /\ process_memory_history # <<>>
    /\ e.timestamp = timestamps[Len(timestamps)]
    /\ e.host = memory_history[Len(memory_history)]
    /\ e.process_memory = process_memory_history[Len(process_memory_history)]

\* every PID of the event e is tracked and its value is the last element of
\* the PID's buffer
EventMatchesRegistry(e) ==
    \A p \in DOMAIN e.process_data :
        /\ p \in Keys(tracked_processes)
        /\ p \in HistKeys(process_history)
        /\ Hist(process_history, p) # <<>>
        /\ e.process_data[p] = Hist(process_history, p)[Len(Hist(process_history, p))]

\* the event e carries the detector state that the tick's evaluation left, and
\* the alert of a tick that raised the flag has been emitted
EventMatchesDetector(e) ==
    /\ e.leak_detected = leak_detected
    /\ (leak_detected /\ ~tick.before) => leak_alert = tick.alert0 + 1

\* C23: every published SnapshotEvent is consistent with the store at the
\* moment of publication: its timestamp, host values and self-process value
\* are the last elements of the three series, each process_data[pid] is the
\* last element of that PID's buffer, every pid in process_data is tracked,
\* and its leak_detected is the detector state after the tick's evaluation,
\* whose alert has been emitted before.
C23_EventConsistent ==
    [][PublishStep =>
        /\ EventMatchesSeries(update_signal'.last)
        /\ EventMatchesRegistry(update_signal'.last)
        /\ EventMatchesDetector(update_signal'.last)]_vars

====
